---- MODULE Spec2Model ----
(***************************************************************************)
(* Model of parkingLot.py: the ParkingLot singleton (spot registry, ticket *)
(* ledger, ticket counter), its pricing and payment strategies and the two *)
(* gates.  Every operation of the program runs to completion before the    *)
(* next starts, so each method is one action.                              *)
(*                                                                         *)
(* Times are whole seconds (time.time() is a float; the model keeps the    *)
(* seconds exact) and amounts are exact fractions [num, den] in lowest     *)
(* terms, so that hours = elapsed / 3600 is not rounded to an integer.     *)
(***************************************************************************)
EXTENDS Integers, Sequences, FiniteSets, TLC

\* ---------- bounds of the model ----------
MaxSpots == 2
MaxTickets == 3
MaxTime == 5400
MaxFeeSteps == 24
MaxFeeCalls == 2
MaxCalls == 6

\* Steps by which the wall clock advances between two operations.
ClockSteps == {5400}

\* ---------- program constants ----------
SecondsPerHour == 3600
HourlyRate == 50
FirstTicketId == 1

\* ---------- fixed types ----------
VehicleType == {"BIKE", "CAR", "TRUCK"}

SpotType == {"COMPACT", "REGULAR", "LARGE"}

\* Plates of the vehicles that show up at the gate.
Numbers == {"KA01AB1234"}

\* Vehicle(number, vehicle_type)
Vehicle(number, vehicle_type) == [number |-> number, type |-> vehicle_type]

Vehicles == {Vehicle(n, t) : n \in Numbers, t \in VehicleType}

\* ParkingSpot(spot_id, spot_type): a new spot is free.
ParkingSpot(spot_id, spot_type) ==
    [id |-> spot_id, type |-> spot_type, occupied |-> FALSE]

is_available(spot) == ~spot.occupied

\* Variant of occupy that leaves the flag as it was.
occupy_unset(spot) == spot

occupy(spot) == [spot EXCEPT !.occupied = TRUE]

\* Variant of free that leaves the flag as it was.
free_unset(spot) == spot

free(spot) == [spot EXCEPT !.occupied = FALSE]

\* Variant of the ticket constructor that numbers the ticket one too high.
ParkingTicket_shifted(ticket_id, vehicle, spot, now) ==
    [ticket_id |-> ticket_id + 1, vehicle |-> vehicle, spot |-> spot,
     entry_time |-> now]

\* ParkingTicket(ticket_id, vehicle, spot): spot is the position of the spot
\* object in the registry; entry_time is the clock at construction.
ParkingTicket(ticket_id, vehicle, spot, now) ==
    [ticket_id |-> ticket_id, vehicle |-> vehicle, spot |-> spot,
     entry_time |-> now]

\* ---------- exact fractions ----------
RECURSIVE GCD(_, _)
GCD(a, b) == IF b = 0 THEN a ELSE GCD(b, a % b)

Abs(n) == IF n < 0 THEN -n ELSE n

Frac(n, d) ==
    LET g == GCD(Abs(n), Abs(d))
    IN  [num |-> n \div g, den |-> d \div g]

FracLeq(x, y) == x.num * y.den <= y.num * x.den

FracMul(x, k) == Frac(x.num * k, x.den)

\* Python's max(a, b): b only when it is strictly greater than a.
FracMax(a, b) == IF FracLeq(b, a) THEN a ELSE b

\* ---------- strategies ----------
\* Variant of calculate_fee without the floor of one hour.
calculate_fee_nofloor(entry_time, exit_time) ==
    FracMul(Frac(exit_time - entry_time, SecondsPerHour), HourlyRate)

\* Variant of calculate_fee that bills started hours in full.
calculate_fee_ceil(entry_time, exit_time) ==
    LET hours == Frac(exit_time - entry_time, SecondsPerHour)
        whole == Frac((hours.num + hours.den - 1) \div hours.den, 1)
    IN  FracMul(FracMax(Frac(1, 1), whole), HourlyRate)

\* HourlyPricing.calculate_fee
calculate_fee(entry_time, exit_time) ==
    LET hours == Frac(exit_time - entry_time, SecondsPerHour)
    IN  FracMul(FracMax(Frac(1, 1), hours), HourlyRate)

\* The payment strategies handed to exit_vehicle: CashPayment, and an
\* implementation of PaymentStrategy whose pay() reports failure.
PaymentStrategies == {"CashPayment", "DeclinedPayment"}

\* Variant of pay in which no strategy reports success.
pay_never(payment_strategy, amount) == FALSE

\* PaymentStrategy.pay / CashPayment.pay: the value returned.
pay(payment_strategy, amount) == payment_strategy = "CashPayment"

\* What pay() prints: only CashPayment prints a receipt.
pay_output(payment_strategy) ==
    IF payment_strategy = "CashPayment" THEN <<"Cash payment received">> ELSE <<>>

\* ---------- state ----------
VARIABLES
    spots,            \* ParkingLot._spots: sequence of spots
    tickets,          \* ParkingLot._tickets: ticket id -> ticket
    ticket_counter,   \* ParkingLot._ticket_counter
    clock,            \* time.time()
    last,             \* the last event: a call with its arguments, return
                      \* value and output, or the clock advancing
    issued,           \* history: ids of the tickets returned, in issue order
    retired,          \* history: ids of the tickets whose exit was paid
    fee_log,          \* calls of calculate_fee on its own: arguments, result
    threads,          \* concurrent callers of park_vehicle: thread -> position
                      \* in the method and its local variables
    instance,         \* ParkingLot._instance: an object, or NoObject for None
    lots,             \* number of ParkingLot objects constructed so far
    results           \* outcomes of the constructions and get_instance calls

\* The class attribute and the objects of ParkingLot.
singleton == <<instance, lots, results>>

\* State that the calls on the lot leave alone.
aux == <<fee_log, threads, singleton>>

vars == <<spots, tickets, ticket_counter, clock, last, issued, retired, aux>>

\* The spot class a vehicle class must park in (_find_spot's mapping).
mapping ==
    [t \in VehicleType |->
        CASE t = "BIKE" -> "COMPACT"
          [] t = "CAR" -> "REGULAR"
          [] t = "TRUCK" -> "LARGE"]

NoSpot == 0
NoTicketId == -1
NoVehicle == [number |-> "", type |-> ""]
None == <<>>
Some(x) == <<x>>

\* The record of a call; fields a call does not have keep the blank value.
\* ret is the value returned (None or Some(value)), out the lines printed,
\* fee the amount calculate_fee returned and paid the value pay returned
\* (None when the call did not reach them); retry tells that the call before
\* it was an exit with the same ticket whose payment was declined, reuse
\* that the call before it was the paid exit that freed the spot now bound.
Call(op) ==
    [op |-> op, vehicle |-> NoVehicle, ticket_id |-> NoTicketId,
     spot |-> NoSpot, ret |-> None, out |-> <<>>,
     fee |-> None, paid |-> None, retry |-> FALSE, reuse |-> FALSE]

\* Variant of _find_spot that prefers an occupied spot of the class.
FindSpotIn_taken(reg, vehicle_type) ==
    LET match == {i \in 1..Len(reg) : reg[i].type = mapping[vehicle_type]}
        taken == {i \in match : ~is_available(reg[i])}
    IN  IF match = {} THEN NoSpot
        ELSE IF taken # {} THEN CHOOSE i \in taken : \A j \in taken : i <= j
        ELSE CHOOSE i \in match : \A j \in match : i <= j

\* Variant of _find_spot that takes the first available spot of any class.
FindSpotIn_anyclass(reg, vehicle_type) ==
    LET match == {i \in 1..Len(reg) : is_available(reg[i])}
    IN  IF match = {} THEN NoSpot
        ELSE CHOOSE i \in match : \A j \in match : i <= j

\* Variant of _find_spot that does not look at the occupancy flag.
FindSpotIn_occupied(reg, vehicle_type) ==
    LET match == {i \in 1..Len(reg) : reg[i].type = mapping[vehicle_type]}
    IN  IF match = {} THEN NoSpot
        ELSE CHOOSE i \in match : \A j \in match : i <= j

\* Variant of _find_spot that keeps the last match of the scan.
FindSpotIn_lastmatch(reg, vehicle_type) ==
    LET match == {i \in 1..Len(reg) :
                    reg[i].type = mapping[vehicle_type] /\ is_available(reg[i])}
    IN  IF match = {} THEN NoSpot
        ELSE CHOOSE i \in match : \A j \in match : i >= j

\* ParkingLot._find_spot over a registry: first spot in registration order
\* of the mapped class that is available; NoSpot for None.
FindSpotIn(reg, vehicle_type) ==
    LET match == {i \in 1..Len(reg) :
                    reg[i].type = mapping[vehicle_type] /\ is_available(reg[i])}
    IN  IF match = {} THEN NoSpot
        ELSE CHOOSE i \in match : \A j \in match : i <= j

_find_spot(vehicle_type) == FindSpotIn(spots, vehicle_type)

\* Variant of the counter update that skips an id.
next_ticket_counter_skip == ticket_counter + 2

\* Variant of the counter update that leaves the counter as it was.
next_ticket_counter_same == ticket_counter

\* self._ticket_counter += 1
next_ticket_counter == ticket_counter + 1

\* Variant of the lookup that falls back to the newest live ticket.
lookup_fallback(ticket_id) ==
    IF ticket_id \in DOMAIN tickets THEN Some(tickets[ticket_id])
    ELSE IF DOMAIN tickets = {} THEN None
    ELSE Some(tickets[CHOOSE t \in DOMAIN tickets :
                        \A u \in DOMAIN tickets : u <= t])

\* ticket_id in self._tickets, then self._tickets[ticket_id]
lookup(ticket_id) ==
    IF ticket_id \in DOMAIN tickets THEN Some(tickets[ticket_id]) ELSE None

\* Variant of the release that frees the spot whatever pay() returned.
SpotsAfterPay_always(ticket, paid) ==
    [spots EXCEPT ![ticket.spot] = free(spots[ticket.spot])]

\* exit_vehicle after pay(): the spot is freed only when pay() returned true.
SpotsAfterPay(ticket, paid) ==
    IF paid
    THEN [spots EXCEPT ![ticket.spot] = free(spots[ticket.spot])]
    ELSE spots

\* Variant of the ledger update that restamps the ticket of a declined
\* payment with the time of the attempt.
TicketsAfterPay_restamp(ticket_id, paid) ==
    IF paid
    THEN [k \in DOMAIN tickets \ {ticket_id} |-> tickets[k]]
    ELSE [tickets EXCEPT ![ticket_id].entry_time = clock]

\* Variant of the ledger update that empties the ledger on a paid exit.
TicketsAfterPay_clear(ticket_id, paid) == IF paid THEN <<>> ELSE tickets

\* Variant of the ledger update that never deletes the ticket.
TicketsAfterPay_keep(ticket_id, paid) == tickets

\* exit_vehicle after pay(): the ticket is deleted only when pay() returned
\* true.
TicketsAfterPay(ticket_id, paid) ==
    IF paid
    THEN [k \in DOMAIN tickets \ {ticket_id} |-> tickets[k]]
    ELSE tickets

\* The threads that call park_vehicle concurrently.
Threads == {1, 2}

\* A thread that has not called yet: vehicle is the argument, spot and ticket
\* the local variables, ret the value returned.
IdleThread ==
    [pc |-> "idle", vehicle |-> NoVehicle, spot |-> NoSpot,
     ticket |-> None, ret |-> None]

\* ParkingLot objects are numbered in construction order.
NoObject == 0

\* The lot of the model is the object get_instance() has created and
\* returned: the first object, constructed with _instance still None.
SingletonInit ==
    /\ instance = 1
    /\ lots = 1
    /\ results = <<[op |-> "get_instance", raised |-> FALSE, obj |-> 1]>>

\* ParkingLot.__init__
Init ==
    /\ spots = <<>>
    /\ tickets = <<>>
    /\ ticket_counter = FirstTicketId
    /\ clock = 0
    /\ last = Call("init")
    /\ issued = <<>>
    /\ retired = {}
    /\ fee_log = <<>>
    /\ threads = [t \in Threads |-> IdleThread]
    /\ SingletonInit

\* ParkingLot.add_spot, called with a newly constructed ParkingSpot.
add_spot(spot_type) ==
    /\ Len(spots) < MaxSpots
    /\ spots' = Append(spots, ParkingSpot(Len(spots) + 1, spot_type))
    /\ last' = [Call("add_spot") EXCEPT !.spot = Len(spots) + 1]
    /\ UNCHANGED <<aux, tickets, ticket_counter, clock, issued, retired>>

\* ParkingLot.park_vehicle.  The model stops issuing after MaxTickets
\* tickets.
park_vehicle(vehicle) ==
    LET spot == _find_spot(vehicle.type)
        ticket == ParkingTicket(ticket_counter, vehicle, spot, clock)
    IN  IF spot = NoSpot
        THEN /\ last' = [Call("park_vehicle") EXCEPT
                                         !.vehicle = vehicle,
                                         !.out = <<"Parking Full">>]
             /\ UNCHANGED <<aux, spots, tickets, ticket_counter, clock,
                            issued, retired>>
        ELSE /\ Len(issued) < MaxTickets
             /\ spots' = [spots EXCEPT ![spot] = occupy(spots[spot])]
             /\ tickets' = [k \in DOMAIN tickets \cup {ticket_counter} |->
                              IF k = ticket_counter THEN ticket ELSE tickets[k]]
             /\ ticket_counter' = next_ticket_counter
             /\ last' = [Call("park_vehicle") EXCEPT
                                         !.vehicle = vehicle,
                                         !.spot = spot,
                                         !.ret = Some(ticket),
                                         !.reuse =
                                            /\ last.op \in {"exit_vehicle", "exit"}
                                            /\ last.paid = Some(TRUE)
                                            /\ last.spot = spot,
                                         !.out = <<"Ticket generated">>]
             /\ issued' = Append(issued, ticket.ticket_id)
             /\ UNCHANGED <<aux, clock, retired>>

\* EntranceGate.enter: hands the vehicle to park_vehicle and returns what it
\* returned.
enter(vehicle) == park_vehicle(vehicle)

\* Body of ParkingLot.exit_vehicle; op names the entry point used.  The
\* method returns no value on any path.
ExitBody(op, ticket_id, payment_strategy) ==
    LET found == lookup(ticket_id)
    IN  IF found = None
        THEN /\ last' = [Call(op) EXCEPT !.ticket_id = ticket_id,
                                         !.out = <<"Invalid Ticket">>]
             /\ UNCHANGED <<aux, spots, tickets, ticket_counter, clock,
                            issued, retired>>
        ELSE LET ticket == found[1]
                 fee == calculate_fee(ticket.entry_time, clock)
                 paid == pay(payment_strategy, fee)
             IN  /\ spots' = SpotsAfterPay(ticket, paid)
                 /\ tickets' = TicketsAfterPay(ticket_id, paid)
                 /\ last' = [Call(op) EXCEPT
                               !.ticket_id = ticket_id,
                               !.spot = ticket.spot,
                               !.fee = Some(fee),
                               !.paid = Some(paid),
                               !.retry = /\ last.op \in {"exit_vehicle", "exit"}
                                         /\ last.ticket_id = ticket_id
                                         /\ last.paid = Some(FALSE),
                               !.out = pay_output(payment_strategy) \o
                                       (IF paid THEN <<"Exit successful">>
                                        ELSE <<>>)]
                 /\ retired' = IF paid THEN retired \cup {ticket_id} ELSE retired
                 /\ UNCHANGED <<aux, ticket_counter, clock, issued>>

\* ParkingLot.exit_vehicle
exit_vehicle(ticket_id, payment_strategy) ==
    ExitBody("exit_vehicle", ticket_id, payment_strategy)

\* ExitGate.exit: always pays with CashPayment and returns nothing.
exit(ticket_id) == ExitBody("exit", ticket_id, "CashPayment")

\* time.time() advances between two calls.
Tick(step) ==
    /\ clock + step <= MaxTime
    /\ clock' = clock + step
    /\ last' = Call("tick")
    /\ UNCHANGED <<aux, spots, tickets, ticket_counter, issued, retired>>

\* Ticket ids a caller may present: issued or not.
TicketIds == 0..MaxTickets

Next ==
    \/ \E spot_type \in SpotType : add_spot(spot_type)
    \/ \E vehicle \in Vehicles : park_vehicle(vehicle)
    \/ \E vehicle \in Vehicles : enter(vehicle)
    \/ \E ticket_id \in TicketIds, payment_strategy \in PaymentStrategies :
          exit_vehicle(ticket_id, payment_strategy)
    \/ \E ticket_id \in TicketIds : exit(ticket_id)
    \/ \E step \in ClockSteps : Tick(step)

Spec == Init /\ [][Next]_vars

EnterOps == {"park_vehicle"}
ExitOps == {"exit_vehicle", "exit"}

TypeOK ==
    /\ Len(spots) <= MaxSpots
    /\ \A i \in 1..Len(spots) : spots[i].type \in SpotType
                                /\ spots[i].occupied \in BOOLEAN
    /\ ticket_counter \in FirstTicketId..(MaxTickets + 1)
    /\ DOMAIN tickets \subseteq 1..MaxTickets
    /\ clock \in 0..MaxTime
    /\ Len(issued) <= MaxTickets

\* ---------- properties ----------
Registered == 1..Len(spots)

\* Live tickets of the ledger that reference spot i.
LiveRefs(i) == {t \in DOMAIN tickets : tickets[t].spot = i}

\* C1: a registered spot is occupied if and only if exactly one live ticket
\* references it, and no two live tickets reference the same spot.
C1_OccupiedIffOneLiveTicket ==
    \A i \in Registered :
        /\ spots[i].occupied <=> Cardinality(LiveRefs(i)) = 1
        /\ \A t1, t2 \in LiveRefs(i) : t1 = t2

\* An occupied and a free spot, after a declined and a successful exit.
C1_Witness ==
    /\ retired # {}
    /\ last.op \in ExitOps
    /\ last.paid = Some(FALSE)
    /\ \E i, j \in Registered : spots[i].occupied /\ ~spots[j].occupied

\* C2: every live ticket's spot, and the spot of the ticket park_vehicle
\* just returned, has the class the mapping assigns to the vehicle's class;
\* a refused vehicle got no spot at all.
C2_NoCrossClass ==
    /\ \A t \in DOMAIN tickets :
          /\ tickets[t].spot \in Registered
          /\ spots[tickets[t].spot].type = mapping[tickets[t].vehicle.type]
    /\ (last.op \in EnterOps /\ last.ret # None) =>
          /\ last.ret[1].spot = last.spot
          /\ last.ret[1].vehicle = last.vehicle
          /\ last.spot \in Registered
          /\ spots[last.spot].type = mapping[last.vehicle.type]
    /\ (last.op \in EnterOps /\ last.ret = None) =>
          last.spot = NoSpot

\* A vehicle was refused while a spot of another class is free and another
\* vehicle holds a ticket.
C2_Witness ==
    /\ last.op \in EnterOps
    /\ last.ret = None
    /\ tickets # <<>>
    /\ \E i \in Registered :
          ~spots[i].occupied /\ spots[i].type # mapping[last.vehicle.type]

\* C3: an exit on a live ticket whose payment is declined leaves the spots,
\* the ledger and the counter as they were, and a spot goes from occupied to
\* free only in an exit step whose payment succeeded.
C3_DeclinedLeavesState ==
    [][ /\ (/\ last'.op \in ExitOps
            /\ last'.ticket_id \in DOMAIN tickets
            /\ last'.paid = Some(FALSE))
           => /\ UNCHANGED <<spots, tickets, ticket_counter>>
              /\ spots'[tickets'[last'.ticket_id].spot].occupied
        /\ \A i \in Registered :
              (spots[i].occupied /\ ~spots'[i].occupied)
                 => (last'.op \in ExitOps /\ last'.paid = Some(TRUE)) ]_vars

\* The last call was an exit on a live ticket whose payment was declined.
C3_Witness ==
    /\ last.op \in ExitOps
    /\ last.paid = Some(FALSE)
    /\ last.ticket_id \in DOMAIN tickets
    /\ spots[tickets[last.ticket_id].spot].occupied
    /\ Cardinality(DOMAIN tickets) >= 2

\* C4: a live ticket's record, with the entry time stamped at issue, never
\* changes; every exit on a live ticket computes the fee of the time elapsed
\* since that entry time; when its payment succeeds the ticket is retired
\* and its spot freed; and a paid exit right after a declined one on the
\* same ticket charges the fee of the declined attempt.
C4_RetryLaw ==
    [][ /\ \A t \in DOMAIN tickets' \ DOMAIN tickets :
              tickets'[t].entry_time = clock
        /\ \A t \in DOMAIN tickets \cap DOMAIN tickets' :
              tickets'[t] = tickets[t]
        /\ \A t \in DOMAIN tickets :
              (last'.op \in ExitOps /\ last'.ticket_id = t)
                 => /\ last'.fee = Some(calculate_fee(tickets[t].entry_time, clock))
                    /\ last'.paid # None
                    /\ last'.paid = Some(TRUE)
                         => /\ t \notin DOMAIN tickets'
                            /\ ~spots'[tickets[t].spot].occupied
                            /\ \A i \in Registered \ {tickets[t].spot} :
                                  spots'[i] = spots[i]
        /\ (/\ last.op \in ExitOps /\ last.paid = Some(FALSE)
            /\ last'.op \in ExitOps /\ last'.paid = Some(TRUE)
            /\ last'.ticket_id = last.ticket_id)
              => last'.fee = last.fee ]_vars

\* A paid exit retired a ticket right after its payment had been declined,
\* an hour and a half after it was issued.
C4_Witness ==
    /\ last.op \in ExitOps
    /\ last.retry
    /\ last.paid = Some(TRUE)
    /\ last.ticket_id \in retired
    /\ last.fee = Some(Frac(75, 1))

\* C5: an exit with a ticket id that is not in the ledger changes no spot,
\* no ticket and not the counter, and calls neither calculate_fee nor pay.
C5_InvalidTicketNoChange ==
    [][ (last'.op \in ExitOps /\ last'.ticket_id \notin DOMAIN tickets)
          => /\ UNCHANGED <<spots, tickets, ticket_counter>>
             /\ last'.fee = None
             /\ last'.paid = None
             /\ last'.out = <<"Invalid Ticket">> ]_vars

\* An id that is not in the ledger was presented while tickets are live.
C5_Witness ==
    /\ last.op \in ExitOps
    /\ last.ticket_id \notin DOMAIN tickets
    /\ last.out = <<"Invalid Ticket">>
    /\ tickets # <<>>

\* C6: a retired ticket id is never in the ledger again, and an exit that
\* presents it is an invalid-ticket exit that changes nothing.
C6_RetiredStaysInvalid ==
    [][ /\ retired' \cap DOMAIN tickets' = {}
        /\ retired \subseteq retired'
        /\ (last'.op \in ExitOps /\ last'.ticket_id \in retired)
              => /\ UNCHANGED <<spots, tickets, ticket_counter>>
                 /\ last'.out = <<"Invalid Ticket">>
                 /\ last'.paid = None ]_vars

\* A retired id was presented after every spot, the one it had held
\* included, was reserved again.
C6_Witness ==
    /\ last.op \in ExitOps
    /\ last.ticket_id \in retired
    /\ Len(spots) >= 1
    /\ \A i \in Registered : spots[i].occupied

\* Free spots of the class the mapping assigns to a vehicle class.
FreeOfClass(vehicle_type) ==
    {i \in Registered :
        spots[i].type = mapping[vehicle_type] /\ ~spots[i].occupied}

\* C7: park_vehicle called while no spot of the vehicle's class is free
\* returns None and leaves the spots, the ledger and the counter unchanged.
C7_LotFullNoChange ==
    [][ (last'.op \in EnterOps /\ FreeOfClass(last'.vehicle.type) = {})
          => /\ last'.ret = None
             /\ last'.out = <<"Parking Full">>
             /\ UNCHANGED <<spots, tickets, ticket_counter, issued>> ]_vars

\* A vehicle was refused because every spot of its class is occupied.
C7_Witness ==
    /\ last.op \in EnterOps
    /\ last.ret = None
    /\ \E i \in Registered :
          spots[i].type = mapping[last.vehicle.type] /\ spots[i].occupied
    /\ FreeOfClass(last.vehicle.type) = {}

\* C8: the ids issued are strictly increasing in issue order, all below the
\* counter, and the counter never decreases.
C8_IdsStrictlyIncreasing ==
    [][ /\ ticket_counter' >= ticket_counter
        /\ \A i, j \in 1..Len(issued') : i < j => issued'[i] < issued'[j]
        /\ \A i \in 1..Len(issued') : issued'[i] < ticket_counter'
        /\ (last'.op \in EnterOps /\ last'.ret # None)
              => /\ last'.ret[1].ticket_id = ticket_counter
                 /\ ticket_counter' > ticket_counter ]_vars

\* Three tickets were issued, one of them after an earlier one was removed.
C8_Witness ==
    /\ Len(issued) >= 3
    /\ \E r \in retired, t \in DOMAIN tickets : r < t
    /\ last.op \in EnterOps
    /\ last.ret # None

\* C9: an exit whose payment succeeded and retired the ticket returns true.
C9_ExitReturnsOutcome ==
    (/\ last.op \in ExitOps
     /\ last.paid = Some(TRUE)
     /\ last.ticket_id \in retired)
      => last.ret = Some(TRUE)

\* C10: the spot of a ticket park_vehicle returns was free, has the
\* vehicle's class, and no spot registered before it was free with that
\* class.
C10_FirstMatch ==
    [][ (last'.op \in EnterOps /\ last'.ret # None)
          => LET i == last'.ret[1].spot
             IN  /\ i \in FreeOfClass(last'.vehicle.type)
                 /\ \A j \in FreeOfClass(last'.vehicle.type) : i <= j
                 /\ spots'[i].occupied ]_vars

\* A vehicle got the earlier of two free spots of its class: a later spot
\* of that class is still free.
C10_Witness ==
    /\ last.op \in EnterOps
    /\ last.ret # None
    /\ \E j \in Registered :
          /\ j > last.spot
          /\ spots[j].type = spots[last.spot].type
          /\ ~spots[j].occupied

\* Registered spots of a class.
OfClass(spot_type) == {i \in Registered : spots[i].type = spot_type}

\* C11: while every spot of a vehicle's class is occupied, park_vehicle for
\* that class returns None and changes no spot; a park_vehicle for that class
\* right after the paid exit of a ticket on a spot of the class, all other
\* spots of the class being occupied, returns a ticket bound to the spot
\* the exit freed.
C11_ReleaseMakesReusable ==
    [][ /\ (last'.op \in EnterOps /\ FreeOfClass(last'.vehicle.type) = {})
           => (last'.ret = None /\ spots' = spots)
        /\ (/\ last.op \in ExitOps
            /\ last.paid = Some(TRUE)
            /\ last'.op \in EnterOps
            /\ mapping[last'.vehicle.type] = spots[last.spot].type
            /\ \A i \in OfClass(spots[last.spot].type) \ {last.spot} :
                  spots[i].occupied)
           => /\ last'.ret # None
              /\ last'.ret[1].spot = last.spot
              /\ spots'[last.spot].occupied
              /\ \A i \in Registered \ {last.spot} : spots'[i] = spots[i] ]_vars

\* A vehicle got the spot the call before it had freed; the class is full
\* again and a spot of another class is still free.
C11_Witness ==
    /\ last.op \in EnterOps
    /\ last.reuse
    /\ last.ret # None
    /\ FreeOfClass(last.vehicle.type) = {}
    /\ \E i \in Registered :
          spots[i].type # mapping[last.vehicle.type] /\ ~spots[i].occupied

\* C15: every occupy() of park_vehicle is on a registered spot that is free
\* when it is called, the one _find_spot has just returned.
C15_NeverReserveOccupied ==
    [][ (last'.op \in EnterOps /\ last'.ret # None)
          => /\ last'.spot \in Registered
             /\ last'.spot = _find_spot(last'.vehicle.type)
             /\ ~spots[last'.spot].occupied
             /\ LiveRefs(last'.spot) = {}
             /\ spots'[last'.spot].occupied ]_vars

\* A spot was reserved while another spot of its class was already held.
C15_Witness ==
    /\ last.op \in EnterOps
    /\ last.ret # None
    /\ \E i \in OfClass(spots[last.spot].type) \ {last.spot} :
          spots[i].occupied /\ i < last.spot

\* C16: a park_vehicle that returns a ticket makes one free spot occupied,
\* adds one ticket, for that spot and the entering vehicle, under the
\* counter's value before the call, and increments the counter; every other
\* spot and every ticket already in the ledger is unchanged.
C16_ParkFrame ==
    [][ (last'.op \in EnterOps /\ last'.ret # None)
          => LET ticket == last'.ret[1]
             IN  /\ ticket.spot \in Registered
                 /\ ~spots[ticket.spot].occupied
                 /\ spots' = [spots EXCEPT ![ticket.spot].occupied = TRUE]
                 /\ ticket.vehicle = last'.vehicle
                 /\ ticket.ticket_id = ticket_counter
                 /\ ticket.entry_time = clock
                 /\ ticket_counter \notin DOMAIN tickets
                 /\ DOMAIN tickets' = DOMAIN tickets \cup {ticket_counter}
                 /\ tickets'[ticket_counter] = ticket
                 /\ \A t \in DOMAIN tickets : tickets'[t] = tickets[t]
                 /\ ticket_counter' = ticket_counter + 1
                 /\ clock' = clock ]_vars

\* A second ticket was issued while the first is live and a spot is free.
C16_Witness ==
    /\ last.op \in EnterOps
    /\ last.ret # None
    /\ Cardinality(DOMAIN tickets) >= 2
    /\ retired # {}

\* C17: a paid exit frees the spot of the presented ticket and deletes that
\* ticket; every other spot, every other ticket and the counter are
\* unchanged.
C17_ExitFrame ==
    [][ (/\ last'.op \in ExitOps
         /\ last'.ticket_id \in DOMAIN tickets
         /\ last'.paid = Some(TRUE))
          => LET t == last'.ticket_id
             IN  /\ spots[tickets[t].spot].occupied
                 /\ spots' = [spots EXCEPT ![tickets[t].spot].occupied = FALSE]
                 /\ DOMAIN tickets' = DOMAIN tickets \ {t}
                 /\ \A u \in DOMAIN tickets' : tickets'[u] = tickets[u]
                 /\ ticket_counter' = ticket_counter
                 /\ clock' = clock ]_vars

\* A paid exit retired one of two live tickets; the other is still live on
\* its occupied spot.
C17_Witness ==
    /\ last.op \in ExitOps
    /\ last.paid = Some(TRUE)
    /\ last.ticket_id \in retired
    /\ ~spots[last.spot].occupied
    /\ \E u \in DOMAIN tickets : spots[tickets[u].spot].occupied

\* C19: every live ticket is stored under its own id, its id is at least 1
\* and below the counter, its spot is registered, and there are no more
\* live tickets than registered spots.
C19_LedgerConsistent ==
    /\ \A t \in DOMAIN tickets :
          /\ tickets[t].ticket_id = t
          /\ t >= 1
          /\ t < ticket_counter
          /\ tickets[t].spot \in Registered
    /\ Cardinality(DOMAIN tickets) <= Len(spots)

\* Every registered spot is held, after an earlier ticket was retired.
C19_Witness ==
    /\ Len(spots) >= 2
    /\ Cardinality(DOMAIN tickets) = Len(spots)
    /\ retired # {}

\* C20: ExitGate.exit on a live ticket always has its payment accepted,
\* frees the spot and deletes the ticket, so a gate exit never ends with a
\* declined payment, each one leaves one live ticket less, and the gate exit
\* of the last live ticket leaves the ledger empty and every spot free.
C20_GateAlwaysRetires ==
    [][ /\ last'.op = "exit" => last'.paid # Some(FALSE)
        /\ (last'.op = "exit" /\ last'.ticket_id \in DOMAIN tickets)
              => /\ last'.paid = Some(TRUE)
                 /\ last'.ticket_id \notin DOMAIN tickets'
                 /\ ~spots'[tickets[last'.ticket_id].spot].occupied
                 /\ Cardinality(DOMAIN tickets') = Cardinality(DOMAIN tickets) - 1
                 /\ (DOMAIN tickets = {last'.ticket_id})
                       => /\ tickets' = <<>>
                          /\ \A i \in Registered : ~spots'[i].occupied ]_vars

\* Gate exits emptied a lot in which two tickets had been live.
C20_Witness ==
    /\ last.op = "exit"
    /\ last.paid = Some(TRUE)
    /\ tickets = <<>>
    /\ Cardinality(retired) >= 2
    /\ Len(spots) >= 2
    /\ \A i \in Registered : ~spots[i].occupied

\* ---------- calculate_fee on its own ----------
\* Entry and exit times handed to calculate_fee, in seconds; an exit time
\* may lie before the entry time (time.time() is not monotonic).
FeeEntries == {0, 900}

FeeExits == {k * 300 : k \in 0..MaxFeeSteps}

\* One call of HourlyPricing.calculate_fee; the lot is not involved.
CalcFee(entry_time, exit_time) ==
    /\ Len(fee_log) < MaxFeeCalls
    /\ fee_log' = Append(fee_log,
                         [entry_time |-> entry_time, exit_time |-> exit_time,
                          fee |-> calculate_fee(entry_time, exit_time)])
    /\ UNCHANGED <<spots, tickets, ticket_counter, clock, last, issued, retired,
                   threads, singleton>>

NextFee == \E entry_time \in FeeEntries, exit_time \in FeeExits :
              CalcFee(entry_time, exit_time)

SpecFee == Init /\ [][NextFee]_vars

FeeCalls == {fee_log[k] : k \in 1..Len(fee_log)}

Elapsed(c) == c.exit_time - c.entry_time

\* C12: for an elapsed time of at most one hour, zero included,
\* calculate_fee returns exactly 50.
C12_FeeFloor ==
    \A c \in FeeCalls :
        Elapsed(c) <= 3600 => (c.fee.num = 50 /\ c.fee.den = 1)

\* Five minutes and exactly one hour were billed.
C12_Witness ==
    /\ \E c \in FeeCalls :
          c.entry_time = 0 /\ c.exit_time = 300 /\ c.fee = Frac(50, 1)
    /\ \E c \in FeeCalls : Elapsed(c) = 3600

\* C13: for an elapsed time of more than one hour calculate_fee returns
\* elapsed * 50 / 3600, not rounded to whole hours (5400 s gives 75), and
\* the fee never decreases when the elapsed time grows.
C13_FractionalBilling ==
    /\ \A c \in FeeCalls :
          Elapsed(c) > 3600
             => /\ c.fee.den > 0
                /\ c.fee.num * 3600 = Elapsed(c) * 50 * c.fee.den
                /\ (Elapsed(c) = 5400 => c.fee.num = 75 /\ c.fee.den = 1)
    /\ \A c, d \in FeeCalls :
          Elapsed(c) <= Elapsed(d)
             => c.fee.num * d.fee.den <= d.fee.num * c.fee.den

\* An hour and a half was billed 75, and a longer stay more.
C13_Witness ==
    /\ \E c \in FeeCalls :
          c.entry_time = 0 /\ c.exit_time = 5400 /\ c.fee = Frac(75, 1)
    /\ \E c, d \in FeeCalls :
          /\ Elapsed(c) = 5400
          /\ Elapsed(d) > 5400
          /\ c.fee.num * d.fee.den < d.fee.num * c.fee.den

\* ---------- park_vehicle called from two threads ----------
\* The code takes no lock: a thread can be preempted between any two
\* statements of park_vehicle.  Each action below is one statement.

\* Registries of free spots, as add_spot builds them before the gates open.
RECURSIVE Registries(_)
Registries(n) ==
    IF n = 0 THEN {<<>>}
    ELSE LET shorter == Registries(n - 1)
         IN  shorter \cup
             {Append(reg, ParkingSpot(Len(reg) + 1, spot_type)) :
                reg \in {r \in shorter : Len(r) = n - 1},
                spot_type \in SpotType}

InitConc ==
    /\ spots \in Registries(MaxSpots) \ {<<>>}
    /\ tickets = <<>>
    /\ ticket_counter = FirstTicketId
    /\ clock = 0
    /\ last = Call("init")
    /\ issued = <<>>
    /\ retired = {}
    /\ fee_log = <<>>
    /\ threads = [t \in Threads |-> IdleThread]
    /\ SingletonInit

LotHistory == <<clock, last, issued, retired, fee_log, singleton>>

\* Thread t moves to pc with its record changed to rec.
Goto(t, rec, pc) == threads' = [threads EXCEPT ![t] = [rec EXCEPT !.pc = pc]]

\* park_vehicle(vehicle) is called.
T_call(t, vehicle) ==
    /\ threads[t].pc = "idle"
    /\ Goto(t, [threads[t] EXCEPT !.vehicle = vehicle], "find")
    /\ UNCHANGED <<spots, tickets, ticket_counter, LotHistory>>

\* spot = self._find_spot(vehicle.get_type())
T_find(t) ==
    /\ threads[t].pc = "find"
    /\ Goto(t, [threads[t] EXCEPT !.spot = _find_spot(threads[t].vehicle.type)],
            "check")
    /\ UNCHANGED <<spots, tickets, ticket_counter, LotHistory>>

\* if not spot: print("Parking Full"); return None
T_check(t) ==
    /\ threads[t].pc = "check"
    /\ Goto(t, threads[t],
            IF threads[t].spot = NoSpot THEN "done" ELSE "occupy")
    /\ UNCHANGED <<spots, tickets, ticket_counter, LotHistory>>

\* spot.occupy()
T_occupy(t) ==
    /\ threads[t].pc = "occupy"
    /\ spots' = [spots EXCEPT ![threads[t].spot] = occupy(spots[threads[t].spot])]
    /\ Goto(t, threads[t], "make")
    /\ UNCHANGED <<tickets, ticket_counter, LotHistory>>

\* ticket = ParkingTicket(self._ticket_counter, vehicle, spot)
T_make(t) ==
    /\ threads[t].pc = "make"
    /\ Goto(t, [threads[t] EXCEPT
                  !.ticket = Some(ParkingTicket(ticket_counter, threads[t].vehicle,
                                                threads[t].spot, clock))],
            "store")
    /\ UNCHANGED <<spots, tickets, ticket_counter, LotHistory>>

\* self._tickets[self._ticket_counter] = ticket
T_store(t) ==
    /\ threads[t].pc = "store"
    /\ tickets' = [k \in DOMAIN tickets \cup {ticket_counter} |->
                     IF k = ticket_counter THEN threads[t].ticket[1]
                     ELSE tickets[k]]
    /\ Goto(t, threads[t], "incr")
    /\ UNCHANGED <<spots, ticket_counter, LotHistory>>

\* self._ticket_counter += 1
T_incr(t) ==
    /\ threads[t].pc = "incr"
    /\ ticket_counter' = next_ticket_counter
    /\ Goto(t, threads[t], "return")
    /\ UNCHANGED <<spots, tickets, LotHistory>>

\* return ticket
T_return(t) ==
    /\ threads[t].pc = "return"
    /\ Goto(t, [threads[t] EXCEPT !.ret = threads[t].ticket], "done")
    /\ UNCHANGED <<spots, tickets, ticket_counter, LotHistory>>

NextConc ==
    \E t \in Threads :
        \/ \E vehicle \in Vehicles : T_call(t, vehicle)
        \/ T_find(t)
        \/ T_check(t)
        \/ T_occupy(t)
        \/ T_make(t)
        \/ T_store(t)
        \/ T_incr(t)
        \/ T_return(t)

SpecConc == InitConc /\ [][NextConc]_vars

\* C14: two concurrent park_vehicle calls that both returned a ticket hold
\* different spots and different ticket ids, and the ledger holds the
\* record of each under its id.
C14_EnterIsAtomic ==
    \A t, u \in Threads :
        (t # u /\ threads[t].pc = "done" /\ threads[u].pc = "done"
           /\ threads[t].ret # None /\ threads[u].ret # None)
          => /\ threads[t].ret[1].spot # threads[u].ret[1].spot
             /\ threads[t].ret[1].ticket_id # threads[u].ret[1].ticket_id
             /\ threads[t].ret[1].ticket_id \in DOMAIN tickets
             /\ tickets[threads[t].ret[1].ticket_id] = threads[t].ret[1]

\* ---------- construction of the lot ----------
\* The program before any ParkingLot exists.
InitSingle ==
    /\ spots = <<>>
    /\ tickets = <<>>
    /\ ticket_counter = FirstTicketId
    /\ clock = 0
    /\ last = Call("init")
    /\ issued = <<>>
    /\ retired = {}
    /\ fee_log = <<>>
    /\ threads = [t \in Threads |-> IdleThread]
    /\ instance = NoObject
    /\ lots = 0
    /\ results = <<>>

LotState == <<spots, tickets, ticket_counter, clock, last, issued, retired,
              fee_log, threads>>

\* ParkingLot.__init__: raises when the class attribute holds an object.
InitRaises == instance # NoObject

\* ParkingLot(): a construction by the caller.
Construct ==
    /\ Len(results) < MaxCalls
    /\ IF InitRaises
       THEN /\ results' = Append(results, [op |-> "ParkingLot", raised |-> TRUE,
                                           obj |-> NoObject])
            /\ UNCHANGED <<instance, lots>>
       ELSE /\ lots' = lots + 1
            /\ results' = Append(results, [op |-> "ParkingLot", raised |-> FALSE,
                                           obj |-> lots + 1])
            /\ UNCHANGED instance
    /\ UNCHANGED LotState

\* ParkingLot.get_instance(): constructs and stores an object when the class
\* attribute is None, and returns the attribute.
GetInstance ==
    /\ Len(results) < MaxCalls
    /\ IF instance = NoObject
       THEN /\ lots' = lots + 1
            /\ instance' = lots + 1
       ELSE UNCHANGED <<instance, lots>>
    /\ results' = Append(results, [op |-> "get_instance", raised |-> FALSE,
                                   obj |-> instance'])
    /\ UNCHANGED LotState

NextSingle == Construct \/ GetInstance

SpecSingle == InitSingle /\ [][NextSingle]_vars

\* C18: at most one ParkingLot object is ever constructed, get_instance
\* always returns that object, and every other construction attempt raises.
C18_Singleton ==
    /\ lots <= 1
    /\ \A i, j \in 1..Len(results) :
          (~results[i].raised /\ ~results[j].raised)
             => results[i].obj = results[j].obj
    /\ \A i \in 1..Len(results) :
          (results[i].op = "ParkingLot" /\ i > 1) => results[i].raised

====
